---- MODULE Spec2Model ----
(***************************************************************************)
(* Model of research/keras-yolo3/ehualu_yolo.py: construction of the YOLO  *)
(* detector (classes file, anchors file, model load with fallback), the    *)
(* per-image result encoder and the batch loop detect_img.                 *)
(*                                                                         *)
(* Text is a sequence of one-character strings.  Box coordinates are the   *)
(* float values of the detector counted in half pixels (5 stands for 2.5), *)
(* so that np.round has ties to break.                                     *)
(*                                                                         *)
(* The classes file, the anchors file and the image directory exist and    *)
(* can be read, and summit.csv can be written; the failures modelled are   *)
(* those of float(), reshape, the two asserts of generate, load_model,     *)
(* load_weights, Image.open and detect_image.                              *)
(***************************************************************************)
EXTENDS Integers, Sequences, FiniteSets, TLC

VARIABLES
    pc,            \* position of the main program
    error,         \* exception that ended the program, "none" while running
    model_path,    \* FLAGS.model_path
    classes_file,  \* content of the classes file: its lines, newline removed
    anchors_file,  \* first line of the anchors file
    class_names,   \* YOLO.class_names
    anchors,       \* YOLO.anchors
    sess,          \* YOLO.sess: "none", "open", "closed"
    yolo_model,    \* YOLO.yolo_model
    load_path,     \* branch generate took: "none", "direct", "fallback"
    dir_entries,   \* content of FLAGS.img_root
    file_list,     \* detect_img: file_list
    idx,           \* detect_img: loop index i (0-based), entries 1..idx handled
    names,         \* detect_img: names
    boxes_str,     \* detect_img: boxes_str
    image,         \* size (width, height) of the image given to detect_image
    out_boxes,     \* boxes returned by sess.run in detect_image
    out_str,       \* result of convert_result_to_str
    stdout,        \* progress lines written by detect_img
    summit_csv,    \* content of summit.csv, NoFile before it is written
    n_writes,      \* number of to_csv calls
    n_closes       \* number of close_session calls

vars == <<pc, error, model_path, classes_file, anchors_file, class_names,
          anchors, sess, yolo_model, load_path, dir_entries, file_list, idx,
          names, boxes_str, image, out_boxes, out_str, stdout, summit_csv,
          n_writes, n_closes>>

-----------------------------------------------------------------------------
(* Bounds *)

MaxLines == 2        \* lines of a classes file
MaxLineLen == 2      \* characters of a classes-file line
MaxFields == 12      \* comma-separated fields of the anchors line
MaxHeads == 3        \* output tensors of a loaded model
MaxPerHead == 2      \* anchors per output tensor of a stored model
MaxModelClasses == 1 \* classes a stored model was trained for
MaxEntries == 3      \* entries of the image directory
MaxDet == 3          \* detections of one image
MaxDim == 2          \* image width and height in the exhaustive box grid

-----------------------------------------------------------------------------
(* Text helpers *)

Max(a, b) == IF a >= b THEN a ELSE b
Min(a, b) == IF a <= b THEN a ELSE b

Digit == <<"0", "1", "2", "3", "4", "5", "6", "7", "8", "9">>

\* str(int): decimal digits, '-' in front of a negative number
RECURSIVE str(_)
str(n) ==
    IF n < 0 THEN <<"-">> \o str(-n)
    ELSE IF n < 10 THEN <<Digit[n + 1]>>
    ELSE str(n \div 10) \o <<Digit[(n % 10) + 1]>>

\* sep.join(parts)
RECURSIVE join(_, _)
join(sep, parts) ==
    IF parts = <<>> THEN <<>>
    ELSE IF Len(parts) = 1 THEN parts[1]
    ELSE parts[1] \o sep \o join(sep, Tail(parts))

Whitespace == {" ", "\t"}

\* s.strip(): leading and trailing whitespace removed
RECURSIVE lstrip(_)
lstrip(s) ==
    IF s # <<>> /\ Head(s) \in Whitespace THEN lstrip(Tail(s)) ELSE s

RECURSIVE rstrip(_)
rstrip(s) ==
    IF s # <<>> /\ s[Len(s)] \in Whitespace
    THEN rstrip(SubSeq(s, 1, Len(s) - 1)) ELSE s

strip(s) == rstrip(lstrip(s))

\* s.split(sep) for a one-character sep: always at least one field
RECURSIVE splitFrom(_, _, _, _)
splitFrom(s, sep, k, cur) ==
    IF k > Len(s) THEN <<cur>>
    ELSE IF s[k] = sep THEN <<cur>> \o splitFrom(s, sep, k + 1, <<>>)
    ELSE splitFrom(s, sep, k + 1, Append(cur, s[k]))

split(s, sep) == splitFrom(s, sep, 1, <<>>)

\* s.endswith(suffix)
endswith(s, suffix) ==
    /\ Len(s) >= Len(suffix)
    /\ SubSeq(s, Len(s) - Len(suffix) + 1, Len(s)) = suffix

DigitValue(c) == CHOOSE d \in 0..9 : Digit[d + 1] = c

DigitChars == {Digit[d] : d \in 1..10}

\* float(x) accepts the field: within the model's alphabet, a non-empty run
\* of digits with optional surrounding whitespace
IsNumeric(x) ==
    LET t == strip(x) IN t # <<>> /\ \A k \in 1..Len(t) : t[k] \in DigitChars

\* float(x) of an accepted field
RECURSIVE digitsValue(_)
digitsValue(t) ==
    IF Len(t) = 1 THEN DigitValue(t[1])
    ELSE 10 * digitsValue(SubSeq(t, 1, Len(t) - 1)) + DigitValue(t[Len(t)])

float(x) == digitsValue(strip(x))

-----------------------------------------------------------------------------
(* Result encoder: YOLO.convert_result_to_str *)

\* np.round(x).astype('int32') of x = h/2: nearest integer, ties to even
np_round(h) ==
    LET k == h \div 2 IN
    IF h % 2 = 0 THEN k
    ELSE IF k % 2 = 0 THEN k ELSE k + 1

\* mutant: right clamped to the height and bottom to the width
BoxFields_SwappedSize(box, size) ==
    LET top    == Max(0, np_round(box[1]))
        left   == Max(0, np_round(box[2]))
        bottom == Min(size[1], np_round(box[3]))
        right  == Min(size[2], np_round(box[4]))
    IN <<left, top, right - left, bottom - top>>

\* the clamped fields of one box: <<left, top, width, height>>
BoxFields(box, size) ==
    LET top    == Max(0, np_round(box[1]))
        left   == Max(0, np_round(box[2]))
        bottom == Min(size[2], np_round(box[3]))
        right  == Min(size[1], np_round(box[4]))
        width  == right - left
        height == bottom - top
    IN <<left, top, width, height>>

\* '_'.join([str(left), str(top), str(width), str(height)])
EncodeBox(box, size) ==
    LET f == BoxFields(box, size)
    IN join(<<"_">>, <<str(f[1]), str(f[2]), str(f[3]), str(f[4])>>)

\* mutant: the detections taken in index order
RECURSIVE ConvertLoop_Forward(_, _, _, _)
ConvertLoop_Forward(boxes, size, i, acc) ==
    IF i < 0 THEN acc
    ELSE LET s == acc \o EncodeBox(boxes[Len(boxes) - i], size)
         IN ConvertLoop_Forward(boxes, size, i - 1,
                                IF i > 0 THEN s \o <<";">> ELSE s)

\* the loop over reversed(list(enumerate(classes))); i is the Python index
RECURSIVE ConvertLoop(_, _, _, _)
ConvertLoop(boxes, size, i, acc) ==
    IF i < 0 THEN acc
    ELSE LET s == acc \o EncodeBox(boxes[i + 1], size)
         IN ConvertLoop(boxes, size, i - 1,
                        IF i > 0 THEN s \o <<";">> ELSE s)

convert_result_to_str(boxes, size) ==
    ConvertLoop(boxes, size, Len(boxes) - 1, <<>>)

-----------------------------------------------------------------------------
(* Inputs *)

NoModel ==
    [source |-> "none", heads |-> 0, channels |-> 0,
     anchors_per_head |-> 0, num_classes |-> 0, weights |-> "none"]

NoFile == <<"no file">>

\* all sequences over S of length at most n
RECURSIVE SeqsUpTo(_, _)
SeqsUpTo(S, n) ==
    IF n = 0 THEN {<<>>}
    ELSE LET shorter == SeqsUpTo(S, n - 1)
         IN shorter \cup {Append(q, x) : q \in {r \in shorter : Len(r) = n - 1},
                                          x \in S}

\* classes files: up to maxLines lines of up to maxLen characters
ClassesFiles(maxLines, maxLen) ==
    SeqsUpTo(SeqsUpTo({" ", "a"}, maxLen), maxLines)

\* the k-th numeric field of an anchors line
AnchorField(k) == str(9 + k)

\* anchors lines: n fields, all numeric or one of them replaced by a field
\* float() rejects
AnchorsLines(maxFields) ==
    LET good(n) == [k \in 1..n |-> AnchorField(k)]
    IN  {join(<<",">>, good(n)) : n \in 1..maxFields}
        \cup UNION {{join(<<",">>, [good(n) EXCEPT ![p] = b]) :
                        p \in 1..n, b \in {<<>>, <<"x">>}} : n \in 1..maxFields}

\* directory listings: distinct names, each a subdirectory, a file that
\* Image.open rejects, or an image
EntryKinds == {"dir", "bad", "img"}

Listings(maxEntries) ==
    {l \in SeqsUpTo([name : 1..maxEntries, kind : EntryKinds], maxEntries) :
        \A a, b \in 1..Len(l) : a # b => l[a].name # l[b].name}

H5Path == <<"m", ".", "h", "5">>
OtherPath == <<"m", ".", "p", "b">>

ExampleBox == <<20, 10, 100, 90>>     \* (top=10, left=5, bottom=50, right=45)
ExampleSize == <<100, 100>>

\* what sess.run returns for an image in the batch run: size and boxes
BatchDetections ==
    {<<ExampleSize, <<>>>>,
     <<<<40, 30>>, <<ExampleBox, <<-5, -6, 41, 85>>>>>>}

-----------------------------------------------------------------------------
(* YOLO.__init__ *)

\* mutant: blank lines dropped
get_class_SkipsBlank(lines) ==
    LET kept == SelectSeq(lines, LAMBDA l : strip(l) # <<>>)
    IN [k \in 1..Len(kept) |-> strip(kept[k])]

\* _get_class: one stripped entry per line
get_class(lines) == [k \in 1..Len(lines) |-> strip(lines[k])]

GetClass ==
    /\ pc = "get_class"
    /\ class_names' = get_class(classes_file)
    /\ pc' = "get_anchors"
    /\ UNCHANGED <<error, model_path, classes_file, anchors_file, anchors,
                   sess, yolo_model, load_path, dir_entries, file_list, idx,
                   names, boxes_str, image, out_boxes, out_str, stdout,
                   summit_csv, n_writes, n_closes>>

\* [float(x) for x in anchors.split(',')] raises for a field float() rejects
AnchorFields(line) == split(line, ",")

AnchorsParse(line) ==
    \A k \in 1..Len(AnchorFields(line)) : IsNumeric(AnchorFields(line)[k])

AnchorValues(line) ==
    [k \in 1..Len(AnchorFields(line)) |-> float(AnchorFields(line)[k])]

\* mutant: an odd value left over is dropped
ReshapeOk_Always(values) == TRUE

\* np.array(anchors).reshape(-1, 2) raises for an odd number of values
ReshapeOk(values) == Len(values) % 2 = 0

reshape2(values) ==
    [k \in 1..(Len(values) \div 2) |-> <<values[2 * k - 1], values[2 * k]>>]

get_anchors_ok(line) == AnchorsParse(line) /\ ReshapeOk(AnchorValues(line))

get_anchors(line) == reshape2(AnchorValues(line))

GetAnchors ==
    /\ pc = "get_anchors"
    /\ get_anchors_ok(anchors_file)
    /\ anchors' = get_anchors(anchors_file)
    /\ pc' = "get_session"
    /\ UNCHANGED <<error, model_path, classes_file, anchors_file, class_names,
                   sess, yolo_model, load_path, dir_entries, file_list, idx,
                   names, boxes_str, image, out_boxes, out_str, stdout,
                   summit_csv, n_writes, n_closes>>

GetAnchorsFail ==
    /\ pc = "get_anchors"
    /\ ~get_anchors_ok(anchors_file)
    /\ error' = "ValueError"
    /\ pc' = "aborted"
    /\ UNCHANGED <<model_path, classes_file, anchors_file, class_names,
                   anchors, sess, yolo_model, load_path, dir_entries,
                   file_list, idx, names, boxes_str, image, out_boxes,
                   out_str, stdout, summit_csv, n_writes, n_closes>>

GetSession ==
    /\ pc = "get_session"
    /\ sess' = "open"
    /\ pc' = "generate"
    /\ UNCHANGED <<error, model_path, classes_file, anchors_file, class_names,
                   anchors, yolo_model, load_path, dir_entries, file_list,
                   idx, names, boxes_str, image, out_boxes, out_str, stdout,
                   summit_csv, n_writes, n_closes>>

\* line 54: assert model_path.endswith('.h5')
PathOk == endswith(model_path, <<".", "h", "5">>)

GenerateBadPath ==
    /\ pc = "generate"
    /\ ~PathOk
    /\ error' = "AssertionError"
    /\ pc' = "aborted"
    /\ UNCHANGED <<model_path, classes_file, anchors_file, class_names,
                   anchors, sess, yolo_model, load_path, dir_entries,
                   file_list, idx, names, boxes_str, image, out_boxes,
                   out_str, stdout, summit_csv, n_writes, n_closes>>

num_anchors == Len(anchors)
num_classes == Len(class_names)

\* a self-contained model stored at model_path: heads output tensors, each
\* with a_per_head * (classes + 5) channels
StoredModel(heads, a_per_head, classes) ==
    [source |-> "load_model", heads |-> heads,
     channels |-> a_per_head * (classes + 5),
     anchors_per_head |-> a_per_head, num_classes |-> classes,
     weights |-> "load_model"]

\* mutant: the number of output tensors left out of the comparison
ShapeMatches_IgnoresHeads(m, nAnchors, nClasses) ==
    m.channels = nAnchors * (nClasses + 5)

\* lines 67-68: output_shape[-1] == num_anchors/len(output) * (num_classes + 5)
\* The quotient is a float; the comparison is done on the cross product,
\* which agrees with it for every count the model reaches.
ShapeMatches(m, nAnchors, nClasses) ==
    m.channels * m.heads = nAnchors * (nClasses + 5)

\* mutant: the tiny architecture also for fewer than 6 anchors
BuiltModel_TinyUpTo6(nAnchors, nClasses) ==
    IF nAnchors <= 6
    THEN [source |-> "tiny_yolo_body", heads |-> 2,
          channels |-> (nAnchors \div 2) * (nClasses + 5),
          anchors_per_head |-> nAnchors \div 2, num_classes |-> nClasses,
          weights |-> "none"]
    ELSE [source |-> "yolo_body", heads |-> 3,
          channels |-> (nAnchors \div 3) * (nClasses + 5),
          anchors_per_head |-> nAnchors \div 3, num_classes |-> nClasses,
          weights |-> "none"]

\* lines 59, 63-64: the architecture built when load_model raised; its
\* weights are not loaded yet
BuiltModel(nAnchors, nClasses) ==
    IF nAnchors = 6
    THEN [source |-> "tiny_yolo_body", heads |-> 2,
          channels |-> (nAnchors \div 2) * (nClasses + 5),
          anchors_per_head |-> nAnchors \div 2, num_classes |-> nClasses,
          weights |-> "none"]
    ELSE [source |-> "yolo_body", heads |-> 3,
          channels |-> (nAnchors \div 3) * (nClasses + 5),
          anchors_per_head |-> nAnchors \div 3, num_classes |-> nClasses,
          weights |-> "none"]

\* load_model succeeded and the assertion of the else branch holds
GenerateDirect ==
    /\ pc = "generate"
    /\ PathOk
    /\ \E h \in 2..MaxHeads, a \in 1..MaxPerHead, c \in 0..MaxModelClasses :
          /\ ShapeMatches(StoredModel(h, a, c), num_anchors, num_classes)
          /\ yolo_model' = StoredModel(h, a, c)
    /\ load_path' = "direct"
    /\ pc' = "listdir"
    /\ UNCHANGED <<error, model_path, classes_file, anchors_file, class_names,
                   anchors, sess, dir_entries, file_list, idx, names,
                   boxes_str, image, out_boxes, out_str, stdout, summit_csv,
                   n_writes, n_closes>>

\* load_model succeeded and the assertion fails: the AssertionError is raised
\* in the else branch, outside the reach of the except clause
GenerateMismatch ==
    /\ pc = "generate"
    /\ PathOk
    /\ \E h \in 2..MaxHeads, a \in 1..MaxPerHead, c \in 0..MaxModelClasses :
          /\ ~ShapeMatches(StoredModel(h, a, c), num_anchors, num_classes)
          /\ yolo_model' = StoredModel(h, a, c)
    /\ load_path' = "direct"
    /\ error' = "AssertionError"
    /\ pc' = "aborted"
    /\ UNCHANGED <<model_path, classes_file, anchors_file, class_names,
                   anchors, sess, dir_entries, file_list, idx, names,
                   boxes_str, image, out_boxes, out_str, stdout, summit_csv,
                   n_writes, n_closes>>

\* load_model raised: build the architecture and load the weights into it
GenerateFallback ==
    /\ pc = "generate"
    /\ PathOk
    /\ yolo_model' = [BuiltModel(num_anchors, num_classes)
                         EXCEPT !.weights = "load_weights"]
    /\ load_path' = "fallback"
    /\ pc' = "listdir"
    /\ UNCHANGED <<error, model_path, classes_file, anchors_file, class_names,
                   anchors, sess, dir_entries, file_list, idx, names,
                   boxes_str, image, out_boxes, out_str, stdout, summit_csv,
                   n_writes, n_closes>>

\* load_model raised and load_weights raises too (line 65)
GenerateFallbackFail ==
    /\ pc = "generate"
    /\ PathOk
    /\ yolo_model' = BuiltModel(num_anchors, num_classes)
    /\ load_path' = "fallback"
    /\ error' = "LoadWeightsError"
    /\ pc' = "aborted"
    /\ UNCHANGED <<model_path, classes_file, anchors_file, class_names,
                   anchors, sess, dir_entries, file_list, idx, names,
                   boxes_str, image, out_boxes, out_str, stdout, summit_csv,
                   n_writes, n_closes>>

-----------------------------------------------------------------------------
(* detect_img *)

\* lines 191-195: list the directory
ListDir ==
    /\ pc = "listdir"
    /\ file_list' = dir_entries
    /\ names' = <<>>
    /\ boxes_str' = <<>>
    /\ idx' = 0
    /\ pc' = "loop"
    /\ UNCHANGED <<error, model_path, classes_file, anchors_file, class_names,
                   anchors, sess, yolo_model, load_path, dir_entries, image,
                   out_boxes, out_str, stdout, summit_csv, n_writes, n_closes>>

total == Len(file_list)

\* line 199: the entry is a directory, nothing is done for it
SkipDir ==
    /\ pc = "loop"
    /\ idx < total
    /\ file_list[idx + 1].kind = "dir"
    /\ idx' = idx + 1
    /\ UNCHANGED <<pc, error, model_path, classes_file, anchors_file,
                   class_names, anchors, sess, yolo_model, load_path,
                   dir_entries, file_list, names, boxes_str, image, out_boxes,
                   out_str, stdout, summit_csv, n_writes, n_closes>>

\* mutant: a file that fails to open gets an empty row
OpenError_AddsEmptyRow ==
    /\ pc = "loop"
    /\ idx < Len(file_list)
    /\ file_list[idx + 1].kind = "bad"
    /\ names' = Append(names, file_list[idx + 1].name)
    /\ boxes_str' = Append(boxes_str, <<>>)
    /\ idx' = idx + 1
    /\ UNCHANGED <<pc, error, model_path, classes_file, anchors_file,
                   class_names, anchors, sess, yolo_model, load_path,
                   dir_entries, file_list, image, out_boxes, out_str, stdout,
                   summit_csv, n_writes, n_closes>>

\* lines 200-204: Image.open raises, the message is printed, continue
OpenError ==
    /\ pc = "loop"
    /\ idx < total
    /\ file_list[idx + 1].kind = "bad"
    /\ idx' = idx + 1
    /\ UNCHANGED <<pc, error, model_path, classes_file, anchors_file,
                   class_names, anchors, sess, yolo_model, load_path,
                   dir_entries, file_list, names, boxes_str, image, out_boxes,
                   out_str, stdout, summit_csv, n_writes, n_closes>>

\* mutant: the 0-based index reported
ProgressLine_ZeroBased(i, n) == <<i, n>>

\* the progress line of line 212
ProgressLine(i, n) == <<i + 1, n>>

\* lines 205-213: detect_image returns; the row and the progress line are added
DetectOk ==
    /\ pc = "loop"
    /\ idx < total
    /\ file_list[idx + 1].kind = "img"
    /\ \E d \in BatchDetections :
          /\ image' = d[1]
          /\ out_boxes' = d[2]
          /\ out_str' = convert_result_to_str(d[2], d[1])
    /\ names' = Append(names, file_list[idx + 1].name)
    /\ boxes_str' = Append(boxes_str, out_str')
    /\ stdout' = Append(stdout, ProgressLine(idx, total))
    /\ idx' = idx + 1
    /\ UNCHANGED <<pc, error, model_path, classes_file, anchors_file,
                   class_names, anchors, sess, yolo_model, load_path,
                   dir_entries, file_list, summit_csv, n_writes, n_closes>>

\* mutant: the failure caught like an open failure
DetectFail_Caught ==
    /\ pc = "loop"
    /\ idx < Len(file_list)
    /\ file_list[idx + 1].kind = "img"
    /\ error' = "InferenceError"
    /\ idx' = idx + 1
    /\ UNCHANGED <<pc, model_path, classes_file, anchors_file, class_names,
                   anchors, sess, yolo_model, load_path, dir_entries,
                   file_list, names, boxes_str, image, out_boxes, out_str,
                   stdout, summit_csv, n_writes, n_closes>>

\* line 206: detect_image raises; nothing in detect_img catches it
DetectFail ==
    /\ pc = "loop"
    /\ idx < total
    /\ file_list[idx + 1].kind = "img"
    /\ error' = "InferenceError"
    /\ pc' = "aborted"
    /\ UNCHANGED <<model_path, classes_file, anchors_file, class_names,
                   anchors, sess, yolo_model, load_path, dir_entries,
                   file_list, idx, names, boxes_str, image, out_boxes,
                   out_str, stdout, summit_csv, n_writes, n_closes>>

\* the DataFrame of lines 217-218: one row per name
Table(ns, bs) == [k \in 1..Len(ns) |-> <<ns[k], bs[k]>>]

\* mutant: the loop left after its first entry (the break of line 214)
WriteCsv_AfterFirst ==
    /\ pc = "loop"
    /\ idx = Min(1, Len(file_list))
    /\ summit_csv' = Table(names, boxes_str)
    /\ n_writes' = n_writes + 1
    /\ pc' = "close"
    /\ UNCHANGED <<error, model_path, classes_file, anchors_file, class_names,
                   anchors, sess, yolo_model, load_path, dir_entries,
                   file_list, idx, names, boxes_str, image, out_boxes,
                   out_str, stdout, n_closes>>

\* lines 215-221: the loop is over, summit.csv is written
WriteCsv ==
    /\ pc = "loop"
    /\ idx = total
    /\ summit_csv' = Table(names, boxes_str)
    /\ n_writes' = n_writes + 1
    /\ pc' = "close"
    /\ UNCHANGED <<error, model_path, classes_file, anchors_file, class_names,
                   anchors, sess, yolo_model, load_path, dir_entries,
                   file_list, idx, names, boxes_str, image, out_boxes,
                   out_str, stdout, n_closes>>

\* line 223 and YOLO.close_session
CloseSession ==
    /\ pc = "close"
    /\ sess' = "closed"
    /\ n_closes' = n_closes + 1
    /\ pc' = "done"
    /\ UNCHANGED <<error, model_path, classes_file, anchors_file, class_names,
                   anchors, yolo_model, load_path, dir_entries, file_list,
                   idx, names, boxes_str, image, out_boxes, out_str, stdout,
                   summit_csv, n_writes>>

-----------------------------------------------------------------------------
(* Specifications *)

InitWith(paths, classesFiles, anchorsLines, listings) ==
    /\ pc = "get_class"
    /\ error = "none"
    /\ model_path \in paths
    /\ classes_file \in classesFiles
    /\ anchors_file \in anchorsLines
    /\ class_names = <<>>
    /\ anchors = <<>>
    /\ sess = "none"
    /\ yolo_model = NoModel
    /\ load_path = "none"
    /\ dir_entries \in listings
    /\ file_list = <<>>
    /\ idx = 0
    /\ names = <<>>
    /\ boxes_str = <<>>
    /\ image = <<0, 0>>
    /\ out_boxes = <<>>
    /\ out_str = <<>>
    /\ stdout = <<>>
    /\ summit_csv = NoFile
    /\ n_writes = 0
    /\ n_closes = 0

\* a classes file of one class; anchors lines of 2 anchors and of an odd
\* number of values
OneClass == {<<<<"a">>>>}
FewAnchorsLines == {join(<<",">>, [k \in 1..4 |-> AnchorField(k)]),
                    join(<<",">>, [k \in 1..3 |-> AnchorField(k)])}

\* the whole program over every directory listing
Init ==
    InitWith({H5Path, OtherPath}, OneClass, FewAnchorsLines,
             Listings(MaxEntries))

Next ==
    \/ GetClass
    \/ GetAnchors
    \/ GetAnchorsFail
    \/ GetSession
    \/ GenerateBadPath
    \/ GenerateDirect
    \/ GenerateMismatch
    \/ GenerateFallback
    \/ GenerateFallbackFail
    \/ ListDir
    \/ SkipDir
    \/ OpenError
    \/ DetectOk
    \/ DetectFail
    \/ WriteCsv
    \/ CloseSession

Spec == Init /\ [][Next]_vars

-----------------------------------------------------------------------------
(* Claims about detect_img, checked under Spec *)

IsImage(e) == e.kind = "img"

\* the names of the listing entries that are files Image.open accepts
ImageNames(listing) ==
    LET imgs == SelectSeq(listing, IsImage)
    IN [k \in 1..Len(imgs) |-> imgs[k].name]

LoopOver == pc \in {"close", "done"}

\* C1: names and boxes_str always have equal length, and once detect_img has
\* finished its loop without a detect failure the table has exactly one row
\* per listing entry that is an openable file, in listing order; a
\* subdirectory and a file that fails to open add no row.
C1_ResultTable ==
    /\ Len(names) = Len(boxes_str)
    /\ LoopOver =>
          /\ names = ImageNames(dir_entries)
          /\ summit_csv # NoFile
          /\ Len(summit_csv) = Len(ImageNames(dir_entries))
          /\ \A k \in 1..Len(summit_csv) :
                summit_csv[k] = <<ImageNames(dir_entries)[k], boxes_str[k]>>

\* one corrupt file and two images: two rows
C1_Witness ==
    /\ pc = "done"
    /\ Len(dir_entries) = 3
    /\ Cardinality({k \in 1..3 : dir_entries[k].kind = "bad"}) = 1
    /\ Cardinality({k \in 1..3 : dir_entries[k].kind = "img"}) = 2
    /\ Len(summit_csv) = 2

\* C2: a failure of detect_image is not caught: the entry it failed on is
\* never passed, summit.csv is never written and the session is never
\* closed; an open failure on an entry lets the loop go on to the next one.
C2_DetectFailureAborts ==
    /\ [](error = "InferenceError" =>
            /\ pc = "aborted"
            /\ idx < Len(file_list)
            /\ file_list[idx + 1].kind = "img"
            /\ summit_csv = NoFile
            /\ n_writes = 0
            /\ n_closes = 0
            /\ sess = "open")
    /\ [][error = "InferenceError" => UNCHANGED vars]_vars
    /\ [][(pc = "loop" /\ idx < Len(file_list)
              /\ file_list[idx + 1].kind = "bad")
          => (pc' = "loop" /\ error' = "none" /\ idx' = idx + 1)]_vars

\* the failure happened after an open failure and with an entry left behind
C2_Witness ==
    /\ error = "InferenceError"
    /\ idx + 1 < Len(file_list)
    /\ \E k \in 1..idx : file_list[k].kind = "bad"

\* C3: summit.csv is written at most once and only when every listing entry
\* has been handled, the session is closed at most once and only after the
\* write; a run without a detect failure never stops before both have
\* happened, and an empty directory gives a table of no rows and no error.
C3_WriteThenClose ==
    /\ n_writes \in {0, 1}
    /\ n_closes \in {0, 1}
    /\ n_closes <= n_writes
    /\ (n_writes = 1) = (summit_csv # NoFile)
    /\ (n_closes = 1) = (sess = "closed")
    /\ n_writes = 1 => idx = Len(dir_entries) /\ file_list = dir_entries
    /\ (pc = "close") => (n_writes = 1 /\ n_closes = 0)
    /\ (pc = "done") => (n_writes = 1 /\ n_closes = 1 /\ error = "none")
    /\ (pc = "loop") =>
          /\ n_writes = 0
          /\ ENABLED (SkipDir \/ OpenError \/ DetectFail \/ WriteCsv
                         \/ DetectOk)
    /\ (pc = "done" /\ dir_entries = <<>>) => summit_csv = <<>>

C3_Witness ==
    /\ pc = "done"
    /\ Len(dir_entries) >= 2
    /\ n_writes = 1
    /\ n_closes = 1
    /\ sess = "closed"
    /\ Len(summit_csv) >= 1

\* C10: one progress line per detected image and none for a skipped entry;
\* the reported i is the 1-based listing position of the image and total the
\* length of the listing, so the i are strictly increasing within 1..total,
\* and the last i is total only if the last entry was detected.
C10_Progress ==
    /\ Len(stdout) = Len(names)
    /\ {stdout[k][1] : k \in 1..Len(stdout)}
          = {j \in 1..idx : file_list[j].kind = "img"}
    /\ \A k \in 1..Len(stdout) :
          /\ stdout[k][2] = Len(dir_entries)
          /\ 1 <= stdout[k][1] /\ stdout[k][1] <= stdout[k][2]
          /\ dir_entries[stdout[k][1]].name = names[k]
          /\ k > 1 => stdout[k - 1][1] < stdout[k][1]
    /\ (stdout # <<>> /\ stdout[Len(stdout)][1] = Len(dir_entries)) =>
          /\ dir_entries[Len(dir_entries)].kind = "img"
          /\ names[Len(names)] = dir_entries[Len(dir_entries)].name

\* two images reported, the last entry skipped: the last i stays below total
C10_Witness ==
    /\ pc = "done"
    /\ Len(stdout) = 2
    /\ dir_entries[Len(dir_entries)].kind = "dir"
    /\ stdout[2][1] < stdout[2][2]

-----------------------------------------------------------------------------
(* The encoder on its own: detect_image line 118 for every small image and
   box list *)

\* coordinates from 1.5 pixels outside the image on either side, in halves
GridCoords == (-3)..(2 * MaxDim + 3)
GridSizes == (1..MaxDim) \X (1..MaxDim)
GridBoxes == GridCoords \X GridCoords \X GridCoords \X GridCoords

FewBoxes == {ExampleBox, <<-5, -6, 41, 85>>, <<1, 3, 5, 7>>}

InitEncode ==
    /\ pc = "encode"
    /\ error = "none"
    /\ model_path = H5Path
    /\ classes_file = <<>>
    /\ anchors_file = <<>>
    /\ class_names = <<>>
    /\ anchors = <<>>
    /\ sess = "open"
    /\ yolo_model = NoModel
    /\ load_path = "none"
    /\ dir_entries = <<>>
    /\ file_list = <<>>
    /\ idx = 0
    /\ names = <<>>
    /\ boxes_str = <<>>
    /\ \/ image \in GridSizes /\ out_boxes \in {<<b>> : b \in GridBoxes}
       \/ /\ image \in GridSizes \cup {ExampleSize}
          /\ out_boxes \in SeqsUpTo(FewBoxes, MaxDet)
    /\ out_str = <<>>
    /\ stdout = <<>>
    /\ summit_csv = NoFile
    /\ n_writes = 0
    /\ n_closes = 0

Encode ==
    /\ pc = "encode"
    /\ out_str' = convert_result_to_str(out_boxes, image)
    /\ pc' = "encoded"
    /\ UNCHANGED <<error, model_path, classes_file, anchors_file, class_names,
                   anchors, sess, yolo_model, load_path, dir_entries,
                   file_list, idx, names, boxes_str, image, out_boxes, stdout,
                   summit_csv, n_writes, n_closes>>

NextEncode == Encode

SpecEncode == InitEncode /\ [][NextEncode]_vars

\* the text of a decimal integer read back
ParseInt(t) ==
    IF t # <<>> /\ t[1] = "-" THEN 0 - digitsValue(Tail(t)) ELSE digitsValue(t)

\* the four integers of one 'a_b_c_d' encoding
ParseEncoding(t) ==
    LET f == split(t, "_")
    IN [k \in 1..Len(f) |-> ParseInt(f[k])]

\* r is h/2 rounded to the nearest integer, a tie going to the even one
IsRounded(r, h) ==
    /\ 2 * r - h \in {-1, 0, 1}
    /\ (2 * r - h # 0) => (r % 2 = 0)

\* the integer that IsRounded singles out
Rounded(h) ==
    CHOOSE r \in ((h \div 2) - 1)..((h \div 2) + 2) : IsRounded(r, h)

\* C4: the result holds the encodings of the detections from the last index
\* to the first, with one ';' between neighbours and none at either end, and
\* is empty for no detection.
C4_ReverseJoined ==
    (pc = "encoded") =>
        LET n == Len(out_boxes)
            segs == split(out_str, ";")
        IN  /\ (n = 0) => (out_str = <<>>)
            /\ (n > 0) =>
                  /\ Len(segs) = n
                  /\ \A k \in 1..n :
                        /\ segs[k] # <<>>
                        /\ segs[k] = EncodeBox(out_boxes[n + 1 - k], image)

C4_Witness ==
    /\ pc = "encoded"
    /\ Len(out_boxes) = 3
    /\ EncodeBox(out_boxes[1], image) # EncodeBox(out_boxes[3], image)
    /\ Len(SelectSeq(out_str, LAMBDA c : c = ";")) = 2

\* C5: every encoding reads left_top_width_height with left and top rounded
\* then raised to 0, width and height taken from right and bottom rounded
\* then lowered to the image width and height; so left, top >= 0,
\* left + width <= W and top + height <= H.  The box (10, 5, 50, 45) in a
\* 100x100 image gives "5_10_40_40".
C5_ClampedFields ==
    (pc = "encoded") =>
        LET n == Len(out_boxes)
            segs == split(out_str, ";")
        IN  /\ \A k \in 1..n :
                  LET f == ParseEncoding(segs[k])
                      box == out_boxes[n + 1 - k]
                  IN  /\ Len(f) = 4
                      /\ f[1] = Max(0, Rounded(box[2]))
                      /\ f[2] = Max(0, Rounded(box[1]))
                      /\ f[3] = Min(image[1], Rounded(box[4])) - f[1]
                      /\ f[4] = Min(image[2], Rounded(box[3])) - f[2]
                      /\ f[1] >= 0 /\ f[2] >= 0
                      /\ f[1] + f[3] <= image[1]
                      /\ f[2] + f[4] <= image[2]
                      /\ (box[2] < 0) => (f[1] = 0)
            /\ (out_boxes = <<ExampleBox>> /\ image = ExampleSize) =>
                  out_str = <<"5", "_", "1", "0", "_", "4", "0", "_", "4", "0">>

C5_Witness ==
    /\ pc = "encoded"
    /\ out_boxes = <<ExampleBox>>
    /\ image = ExampleSize
    /\ out_str = <<"5", "_", "1", "0", "_", "4", "0", "_", "4", "0">>

-----------------------------------------------------------------------------
(* The whole program over every classes file, and over every anchors line *)

\* one directory with a subdirectory, a file that is no image and an image
FewListings ==
    {<<[name |-> 2, kind |-> "dir"], [name |-> 3, kind |-> "bad"],
       [name |-> 1, kind |-> "img"]>>}

FewClassesFiles == {<<>>, <<<<"a">>>>, <<<<"a">>, <<"a", "a">>>>}

InitClasses ==
    InitWith({H5Path, OtherPath}, ClassesFiles(MaxLines, MaxLineLen),
             FewAnchorsLines, FewListings)

SpecClasses == InitClasses /\ [][Next]_vars

InitAnchors ==
    InitWith({H5Path, OtherPath}, FewClassesFiles, AnchorsLines(MaxFields),
             FewListings)

SpecAnchors == InitAnchors /\ [][Next]_vars

ClassesRead == pc # "get_class"
AnchorsRead == pc \notin {"get_class", "get_anchors"}
Generated == pc \notin {"get_class", "get_anchors", "get_session", "generate"}

\* C6: a model that load_model returned is kept only if its channel count
\* times its number of heads equals num_anchors * (num_classes + 5); a
\* mismatch ends construction with the assertion error and leaves the loaded
\* model in place (no architecture is built for it); a built architecture is
\* never checked.
C6_ShapeCheck ==
    /\ (load_path = "direct") =>
          /\ yolo_model.source = "load_model"
          /\ (yolo_model.channels * yolo_model.heads
                 = Len(anchors) * (Len(class_names) + 5))
                => (Generated /\ error # "AssertionError")
          /\ (yolo_model.channels * yolo_model.heads
                 # Len(anchors) * (Len(class_names) + 5))
                => (pc = "aborted" /\ error = "AssertionError")
    /\ (load_path = "fallback") => (error # "AssertionError")

\* a loaded model with the right channel count for half the anchors, but
\* with three heads
C6_Witness ==
    /\ load_path = "direct"
    /\ error = "AssertionError"
    /\ yolo_model.source = "load_model"
    /\ yolo_model.heads = 3
    /\ yolo_model.channels * 2 = Len(anchors) * (Len(class_names) + 5)

\* C7: an architecture is built, and load_weights called on it, exactly when
\* load_model failed; it is the tiny one with num_anchors div 2 anchors per
\* head for 6 anchors and the full one with num_anchors div 3 otherwise.
C7_Variant ==
    /\ (load_path = "fallback")
          = (yolo_model.source \in {"tiny_yolo_body", "yolo_body"})
    /\ (load_path = "direct") = (yolo_model.source = "load_model")
    /\ (load_path = "none") = (yolo_model = NoModel)
    /\ (load_path = "fallback") =>
          /\ yolo_model.num_classes = Len(class_names)
          /\ (Len(anchors) = 6) =>
                /\ yolo_model.source = "tiny_yolo_body"
                /\ yolo_model.anchors_per_head = 3
          /\ (Len(anchors) # 6) =>
                /\ yolo_model.source = "yolo_body"
                /\ 3 * yolo_model.anchors_per_head <= Len(anchors)
                /\ Len(anchors) < 3 * yolo_model.anchors_per_head + 3
          /\ (error # "LoadWeightsError") =>
                yolo_model.weights = "load_weights"
    /\ (load_path = "direct") => (yolo_model.weights = "load_model")

C7_Witness ==
    /\ load_path = "fallback"
    /\ Len(anchors) = 6
    /\ yolo_model.source = "tiny_yolo_body"
    /\ yolo_model.weights = "load_weights"
    /\ pc = "done"

\* a line that is blank once trimmed
IsBlank(line) == \A k \in 1..Len(line) : line[k] \in Whitespace

NotBlank(line) == ~IsBlank(line)

\* t is s without its leading and trailing whitespace
IsTrimOf(t, s) ==
    /\ (t # <<>>) => (t[1] \notin Whitespace /\ t[Len(t)] \notin Whitespace)
    /\ \E a \in 0..Len(s) :
          /\ a + Len(t) <= Len(s)
          /\ SubSeq(s, a + 1, a + Len(t)) = t
          /\ \A k \in 1..Len(s) :
                (k <= a \/ k > a + Len(t)) => s[k] \in Whitespace

Commas(line) == Len(SelectSeq(line, LAMBDA c : c = ","))

HasBadField(line) ==
    \/ line = <<>>
    \/ line[1] = ","
    \/ line[Len(line)] = ","
    \/ \E k \in 1..Len(line) : line[k] \notin DigitChars \cup {","}
    \/ \E k \in 1..(Len(line) - 1) : line[k] = "," /\ line[k + 1] = ","

\* the values of the pairs written back as a line
RECURSIVE Flatten(_)
Flatten(pairs) ==
    IF pairs = <<>> THEN <<>>
    ELSE <<str(pairs[1][1]), str(pairs[1][2])>> \o Flatten(Tail(pairs))

\* C9: for a line of an even number of numeric fields _get_anchors returns
\* half as many pairs, in file order; an odd number of fields or a field that
\* is no number ends construction with an error, before the session exists,
\* any model is loaded, the directory is listed or summit.csv is written.
C9_Anchors ==
    AnchorsRead =>
        IF HasBadField(anchors_file) \/ (Commas(anchors_file) + 1) % 2 = 1
        THEN /\ pc = "aborted"
             /\ error = "ValueError"
             /\ anchors = <<>>
             /\ sess = "none"
             /\ yolo_model = NoModel
             /\ load_path = "none"
             /\ file_list = <<>> /\ idx = 0
             /\ names = <<>> /\ stdout = <<>>
             /\ summit_csv = NoFile /\ n_writes = 0
        ELSE /\ error # "ValueError"
             /\ 2 * Len(anchors) = Commas(anchors_file) + 1
             /\ \A k \in 1..Len(anchors) : Len(anchors[k]) = 2
             /\ join(<<",">>, Flatten(anchors)) = anchors_file

\* an odd count of numbers
C9_Witness ==
    /\ pc = "aborted"
    /\ error = "ValueError"
    /\ ~HasBadField(anchors_file)
    /\ Commas(anchors_file) = 4

====
